---------------------------- MODULE Spec2Model ----------------------------
(***************************************************************************)
(* A model of github.com/lrstanley/pt: the "next URL" redirect helpers of  *)
(* next.go and Loader.Render, FileServer and JSON of render.go.            *)
(*                                                                         *)
(* Strings are sequences of byte values (0..255), as Go strings are, so    *)
(* that percent-decoding and -encoding are computed and not assumed.       *)
(***************************************************************************)
EXTENDS Integers, Sequences, FiniteSets, TLC

VARIABLES
    \* ---- next.go: one client session ----
    req,        \* the request in flight: [hasQuery, rawQuery, hasBody, rawBody]
    npc,        \* "idle" | "returned" | "redirected" | "left"
    next,       \* what GetNextURL returned (the named result of next.go:37)
    selected,   \* the raw value GetNextURL selected (next.go:40-42)
    location,   \* the url handed to http.Redirect
    sent,       \* the continuation RedirectWithNextURL encoded into location
    hop,        \* redirects followed so far
    \* ---- render.go: Loader.Render calls on one Loader ----
    ld,         \* the Loader: [conf, ts], and whether its set has the template cached
    cached,     \* the template set's cache holds the parsed template
    rctx,       \* the map object the caller passes as rctx: [nil, m]
    dctx,       \* the map object Config.DefaultCtx returns: [nil, m]
    rpc,        \* the call's position, named as the spec's state machine
    path,       \* the positions the current call went through
    calls,      \* Render calls started
    reqURL,     \* r.URL of the request being rendered
    resolveErr, \* what FromCache/FromFile returned
    execErr,    \* what ExecuteWriter returned
    rctx0,      \* rctx as passed to the current call
    dret,       \* what DefaultCtx returned to the current call: [called, nil, m]
    nfCalls,    \* NotFoundHandler invocations of the current call, with their arguments
    dctxCalls,  \* DefaultCtx invocations of the current call
    contentType,\* the response's Content-Type header
    tplCtx,     \* the context ExecuteWriter was given, one entry per execution
    logged,     \* writes to Config.ErrorLogger by the current call
    panicked,   \* the current call panicked
    ctx,        \* the local ctx of the current call: [ref, m], ref the object it points to
    \* ---- render.go: FileServer on one router ----
    fsPath,     \* the path argument
    routes,     \* what router.Get was called with, in order
    fpc,        \* "idle" | "done" | "panicked"
    \* ---- render.go: JSON for one request ----
    jreq,       \* [escape: the context value, pretty: the form value, v: the value]
    jpc,        \* "idle" | "done" | "panicked"
    jContentType, \* the response's Content-Type header
    jbody       \* the bytes written to the response

nvars == <<req, npc, next, selected, location, sent, hop>>
rvars == <<ld, cached, rctx, dctx, rpc, path, calls, reqURL, resolveErr, execErr,
           rctx0, dret, nfCalls, dctxCalls, contentType, tplCtx, logged, panicked,
           ctx>>
fvars == <<fsPath, routes, fpc>>
jvars == <<jreq, jpc, jContentType, jbody>>
vars == <<nvars, rvars, fvars, jvars>>

-----------------------------------------------------------------------------
(* Bytes and strings *)

\* The printable ASCII characters, in code order from 32 (space) to 126 (~);
\* the three that a TLA+ string cannot hold are written by name.
Ascii ==
    <<" ", "!", "DQUOTE", "#", "$", "%", "&", "'", "(", ")", "*", "+", ",", "-",
      ".", "/", "0", "1", "2", "3", "4", "5", "6", "7", "8", "9", ":", ";",
      "<", "=", ">", "?", "@", "A", "B", "C", "D", "E", "F", "G", "H", "I",
      "J", "K", "L", "M", "N", "O", "P", "Q", "R", "S", "T", "U", "V", "W",
      "X", "Y", "Z", "[", "BACKSLASH", "]", "^", "_", "BACKTICK", "a", "b", "c", "d", "e",
      "f", "g", "h", "i", "j", "k", "l", "m", "n", "o", "p", "q", "r", "s",
      "t", "u", "v", "w", "x", "y", "z", "{", "|", "}", "~">>

\* The byte value of a printable character.
Ord(c) == 31 + (CHOOSE i \in 1..Len(Ascii) : Ascii[i] = c)

\* The Go string written as a tuple of its characters.
Str(t) == [i \in 1..Len(t) |-> Ord(t[i])]

\* strings.HasPrefix(s, p)
HasPrefix(s, p) == Len(s) >= Len(p) /\ SubSeq(s, 1, Len(p)) = p

\* the concatenation of a sequence of strings
RECURSIVE Concat(_)
Concat(ss) == IF ss = <<>> THEN <<>> ELSE Head(ss) \o Concat(Tail(ss))

\* the sequences over S of length at most n
SeqsUpTo(S, n) == UNION {[1..k -> S] : k \in 0..n}

-----------------------------------------------------------------------------
(* net/url: QueryUnescape and QueryEscape, as GetNextURL and               *)
(* RedirectWithNextURL call them                                           *)

ishex(c) ==
    \/ Ord("0") <= c /\ c <= Ord("9")
    \/ Ord("a") <= c /\ c <= Ord("f")
    \/ Ord("A") <= c /\ c <= Ord("F")

unhex(c) ==
    IF Ord("0") <= c /\ c <= Ord("9") THEN c - Ord("0")
    ELSE IF Ord("a") <= c /\ c <= Ord("f") THEN c - Ord("a") + 10
    ELSE IF Ord("A") <= c /\ c <= Ord("F") THEN c - Ord("A") + 10
    ELSE 0

\* url.unescape's first pass: every % is followed by two hex digits.
RECURSIVE validEscapes(_, _)
validEscapes(s, i) ==
    IF i > Len(s) THEN TRUE
    ELSE IF s[i] = Ord("%")
         THEN /\ i + 2 <= Len(s)
              /\ ishex(s[i + 1])
              /\ ishex(s[i + 2])
              /\ validEscapes(s, i + 3)
         ELSE validEscapes(s, i + 1)

\* url.unescape's second pass in query-component mode: %XX is the byte XX,
\* + is a space.
RECURSIVE unescapeFrom(_, _)
unescapeFrom(s, i) ==
    IF i > Len(s) THEN <<>>
    ELSE IF s[i] = Ord("%")
         THEN <<unhex(s[i + 1]) * 16 + unhex(s[i + 2])>> \o unescapeFrom(s, i + 3)
         ELSE IF s[i] = Ord("+")
              THEN <<Ord(" ")>> \o unescapeFrom(s, i + 1)
              ELSE <<s[i]>> \o unescapeFrom(s, i + 1)

\* url.QueryUnescape(s): [ok |-> err == nil, val |-> the decoded string]
QueryUnescape(s) ==
    IF validEscapes(s, 1)
    THEN [ok |-> TRUE, val |-> unescapeFrom(s, 1)]
    ELSE [ok |-> FALSE, val |-> <<>>]

\* url.shouldEscape(c, encodeQueryComponent): everything but the unreserved
\* characters (alphanumerics and - _ . ~) is escaped.
shouldEscape(c) ==
    ~(\/ Ord("a") <= c /\ c <= Ord("z")
      \/ Ord("A") <= c /\ c <= Ord("Z")
      \/ Ord("0") <= c /\ c <= Ord("9")
      \/ c \in {Ord("-"), Ord("_"), Ord("."), Ord("~")})

upperhex == Str(<<"0", "1", "2", "3", "4", "5", "6", "7", "8", "9",
                  "A", "B", "C", "D", "E", "F">>)

\* url.QueryEscape(s)
RECURSIVE QueryEscape(_)
QueryEscape(s) ==
    IF s = <<>> THEN <<>>
    ELSE LET c == Head(s) IN
         (IF ~shouldEscape(c) THEN <<c>>
          ELSE IF c = Ord(" ") THEN <<Ord("+")>>
          ELSE <<Ord("%"), upperhex[(c \div 16) + 1], upperhex[(c % 16) + 1]>>)
         \o QueryEscape(Tail(s))

-----------------------------------------------------------------------------
(* next.go *)

\* the longest raw query value enumerated, in tokens
MaxTok == 3
\* the redirects a session follows
MaxHops == 1

NextKey == Str(<<"n", "e", "x", "t">>)

EmptyStr == <<>>
Slash == Str(<<"/">>)

\* The pieces raw parameter values are built from: a path separator plain
\* and encoded, an encoded and a bare percent sign, a plus, a letter, and
\* two hex digits (so that %25 followed by 2B is a doubly encoded plus).
Tokens ==
    { Str(<<"/">>), Str(<<"%", "2", "F">>), Str(<<"%", "2", "5">>),
      Str(<<"+">>), Str(<<"a">>), Str(<<"%">>), Str(<<"2", "B">>) }

Settings == Str(<<"/", "s", "e", "t", "t", "i", "n", "g", "s">>)
Dashboard == Str(<<"/", "d", "a", "s", "h", "b", "o", "a", "r", "d">>)
EvilEncoded ==
    Str(<<"%", "2", "F", "%", "2", "F", "e", "v", "i", "l", ".", "c", "o", "m">>)
HttpEvil ==
    Str(<<"h", "t", "t", "p", ":", "/", "/", "e", "v", "i", "l", ".", "c", "o", "m">>)

\* the raw (still encoded) values of the NextKey parameter in the URL
RawValues ==
    {Concat(ts) : ts \in SeqsUpTo(Tokens, MaxTok)}
        \cup {Settings, Dashboard, EvilEncoded, HttpEvil}

\* the raw values of the NextKey parameter in a urlencoded request body
BodyValues ==
    { EmptyStr, Settings, Str(<<"a">>), Str(<<"%", "2", "F", "a">>),
      Str(<<"/", "/", "a">>), Str(<<"%">>) }

\* A request carries at most one NextKey pair in its URL and at most one in
\* its body.
Requests ==
    { [hasQuery |-> hq, rawQuery |-> q, hasBody |-> hb, rawBody |-> b] :
        hq \in BOOLEAN, q \in RawValues, hb \in BOOLEAN, b \in BodyValues }

WellFormed(r) ==
    /\ ~r.hasQuery => r.rawQuery = EmptyStr
    /\ ~r.hasBody => r.rawBody = EmptyStr

\* r.ParseForm()'s error: a pair of the URL or of the body does not decode.
ParseFormErr(r) ==
    \/ r.hasQuery /\ ~QueryUnescape(r.rawQuery).ok
    \/ r.hasBody /\ ~QueryUnescape(r.rawBody).ok

\* r.URL.Query().Get(NextKey): url.ParseQuery decodes the value and drops a
\* pair that does not decode; Get of a missing key is "".
URLQueryGet(r) ==
    IF r.hasQuery /\ QueryUnescape(r.rawQuery).ok
    THEN QueryUnescape(r.rawQuery).val
    ELSE EmptyStr

\* r.FormValue(NextKey): the first value of r.Form, which holds the body's
\* decoded values before the URL's.
FormValue(r) ==
    IF r.hasBody /\ QueryUnescape(r.rawBody).ok
    THEN QueryUnescape(r.rawBody).val
    ELSE URLQueryGet(r)

\* a variant of SelectNext that reads the merged form values first
SelectNextFormFirst(r) ==
    IF FormValue(r) = EmptyStr THEN URLQueryGet(r) ELSE FormValue(r)

\* next.go:40-42
SelectNext(r) ==
    IF URLQueryGet(r) = EmptyStr THEN FormValue(r) ELSE URLQueryGet(r)

\* a variant of ValidateNext that validates the decoded value and returns the
\* raw one
ValidateNextReturnsRaw(v) ==
    IF v = EmptyStr THEN v
    ELSE IF QueryUnescape(v).ok
         THEN (IF ~HasPrefix(QueryUnescape(v).val, Slash) THEN EmptyStr ELSE v)
         ELSE IF ~HasPrefix(v, Slash) THEN EmptyStr ELSE v

\* next.go:44-60
ValidateNext(v) ==
    IF v = EmptyStr THEN v
    ELSE IF QueryUnescape(v).ok
         THEN (IF ~HasPrefix(QueryUnescape(v).val, Slash)
               THEN EmptyStr
               ELSE QueryUnescape(v).val)
         ELSE IF ~HasPrefix(v, Slash) THEN EmptyStr ELSE v

\* next.go:37-61; the error of r.ParseForm() is dropped (line 38)
GetNextURL(r) == ValidateNext(SelectNext(r))

\* the page a handler redirects to with RedirectWithNextURL
Target == Str(<<"/", "l", "o", "g", "i", "n">>)

\* next.go:74, the url argument of http.Redirect
WithNextURL(r, target) ==
    target \o Str(<<"?">>) \o NextKey \o Str(<<"=">>) \o QueryEscape(GetNextURL(r))

\* the index of the first byte c in s, 0 when there is none
IndexByte(s, c) ==
    IF \E i \in 1..Len(s) : s[i] = c
    THEN CHOOSE i \in 1..Len(s) : s[i] = c /\ \A j \in 1..(i - 1) : s[j] # c
    ELSE 0

\* The GET request a client sends for a Location: its query is what follows
\* the first ?, a single key=value pair here.
RequestFor(loc) ==
    LET q == IndexByte(loc, Ord("?"))
        rawq == IF q = 0 THEN EmptyStr ELSE SubSeq(loc, q + 1, Len(loc))
        e == IndexByte(rawq, Ord("="))
        key == IF e = 0 THEN rawq ELSE SubSeq(rawq, 1, e - 1)
        val == IF e = 0 THEN EmptyStr ELSE SubSeq(rawq, e + 1, Len(rawq))
    IN  IF q # 0 /\ key = NextKey
        THEN [hasQuery |-> TRUE, rawQuery |-> val, hasBody |-> FALSE, rawBody |-> EmptyStr]
        ELSE [hasQuery |-> FALSE, rawQuery |-> EmptyStr, hasBody |-> FALSE, rawBody |-> EmptyStr]

\* the rest of the program's state, which next.go does not touch
NFrame == UNCHANGED <<rvars, fvars, jvars>>

NInit ==
    /\ req \in {r \in Requests : WellFormed(r)}
    /\ npc = "idle"
    /\ next = EmptyStr
    /\ selected = EmptyStr
    /\ location = EmptyStr
    /\ sent = EmptyStr
    /\ hop = 0

\* a handler calls GetNextURL(r)
CallGetNextURL ==
    /\ npc = "idle"
    /\ selected' = SelectNext(req)
    /\ next' = GetNextURL(req)
    /\ npc' = "returned"
    /\ UNCHANGED <<req, location, sent, hop>>
    /\ NFrame

\* a handler calls RedirectWithNextURL(w, r, Target, code)
CallRedirectWithNextURL ==
    /\ npc = "idle"
    /\ hop < MaxHops
    /\ sent' = GetNextURL(req)
    /\ location' = WithNextURL(req, Target)
    /\ npc' = "redirected"
    /\ UNCHANGED <<req, next, selected, hop>>
    /\ NFrame

\* a handler calls RedirectToNextURL(w, r, code)
CallRedirectToNextURL ==
    /\ npc = "idle"
    /\ location' = GetNextURL(req)
    /\ npc' = "left"
    /\ UNCHANGED <<req, next, selected, sent, hop>>
    /\ NFrame

\* the client follows the redirect of RedirectWithNextURL
FollowRedirect ==
    /\ npc = "redirected"
    /\ req' = RequestFor(location)
    /\ hop' = hop + 1
    /\ npc' = "idle"
    /\ UNCHANGED <<next, selected, location, sent>>
    /\ NFrame

NNext ==
    \/ CallGetNextURL
    \/ CallRedirectWithNextURL
    \/ CallRedirectToNextURL
    \/ FollowRedirect


-----------------------------------------------------------------------------
(* render.go: Loader.Render *)

\* Render calls made on the Loader
MaxCalls == 2

Keys == {"url", "cachets", "title"}
Absent == "absent"

\* A map[string]interface{}: nil, or the value of each key (Absent: the key
\* is not in the map).
NoKeys == [k \in Keys |-> Absent]
NilMap == [nil |-> TRUE, m |-> NoKeys]
MapsOf(V) == {NilMap} \cup {[nil |-> FALSE, m |-> f] : f \in [Keys -> V \cup {Absent}]}

\* what callers pass as rctx, and what a DefaultCtx function returns
ExplicitMaps == MapsOf({"e"})
DefaultMaps == MapsOf({"d"})
URLs == {"/p", "/q"}

\* Config as New() stores it. DefaultCtx is "nil" (not set), "shared" (a
\* function that returns the same map object on every call) or "fresh" (one
\* that builds a new map on every call); defaultMap is what it returns.
Configs ==
    { [CacheParsed |-> c, DefaultCtx |-> d, defaultMap |-> dm, NotFoundHandler |-> h] :
        c \in BOOLEAN, d \in {"nil", "shared", "fresh"}, dm \in DefaultMaps, h \in BOOLEAN }

\* render.go:85-89, as New() fills it (render.go:44-47)
Loaders == {[conf |-> c, ts |-> "ld.ts"] : c \in {x \in Configs : x.DefaultCtx = "nil" => x.defaultMap = NilMap}}

Terminal == {"NotFound", "Aborted", "Done", "SoftError"}

\* What FromCache/FromFile return: nil, a *pongo2.Error whose OrigError is a
\* file-does-not-exist error, a *pongo2.Error of another cause, or an error
\* that is no *pongo2.Error (here a bare file-does-not-exist error).
ResolveErrs == {"nil", "pongoNotExist", "pongoOther", "plainNotExist"}
\* What ExecuteWriter returns: nil, a *pongo2.Error, or another error (a
\* failed write to the client).
ExecErrs == {"nil", "pongo", "other"}

\* a variant of ResolveOutcome whose not-found branch does not return after
\* the handler
ResolveOutcomeNoReturn(err, hasHandler) ==
    IF err = "pongoNotExist"
    THEN [pc |-> "Aborted", handler |-> hasHandler, panic |-> TRUE]
    ELSE IF err # "nil"
         THEN [pc |-> "Aborted", handler |-> FALSE, panic |-> TRUE]
         ELSE [pc |-> "Resolved", handler |-> FALSE, panic |-> FALSE]

\* render.go:118-131: errors.As and os.IsNotExist pick the not-found case,
\* pongo2.Must panics on every other error.
ResolveOutcome(err, hasHandler) ==
    IF err = "pongoNotExist"
    THEN (IF hasHandler
          THEN [pc |-> "NotFound", handler |-> TRUE, panic |-> FALSE]
          ELSE [pc |-> "Aborted", handler |-> FALSE, panic |-> TRUE])
    ELSE IF err # "nil"
         THEN [pc |-> "Aborted", handler |-> FALSE, panic |-> TRUE]
         ELSE [pc |-> "Resolved", handler |-> FALSE, panic |-> FALSE]

\* a variant of MergeCtx in which the default context's keys win
MergeCtxDefaultWins(called, d, r) ==
    IF (~called \/ d.nil) /\ ~r.nil THEN [ref |-> "rctx", m |-> r.m]
    ELSE IF ~called \/ d.nil THEN [ref |-> "fresh", m |-> NoKeys]
    ELSE IF ~r.nil
         THEN [ref |-> "dctx",
               m |-> [k \in Keys |-> IF d.m[k] # Absent THEN d.m[k] ELSE r.m[k]]]
         ELSE [ref |-> "dctx", m |-> d.m]

\* render.go:133-148: ctx is nil unless DefaultCtx was called and returned a
\* map. The switch makes ctx the caller's map, a new map, or DefaultCtx's map
\* with the caller's keys written into it. The result names the map object
\* ctx points to and that object's contents.
MergeCtx(called, d, r) ==
    IF (~called \/ d.nil) /\ ~r.nil THEN [ref |-> "rctx", m |-> r.m]
    ELSE IF ~called \/ d.nil THEN [ref |-> "fresh", m |-> NoKeys]
    ELSE IF ~r.nil
         THEN [ref |-> "dctx",
               m |-> [k \in Keys |-> IF r.m[k] # Absent THEN r.m[k] ELSE d.m[k]]]
         ELSE [ref |-> "dctx", m |-> d.m]

\* render.go:150-155
InjectDefaults(m, url, ts) ==
    [k \in Keys |->
        IF m[k] # Absent THEN m[k]
        ELSE IF k = "url" THEN url
        ELSE IF k = "cachets" THEN ts
        ELSE Absent]

\* a variant of ExecOutcome that panics on every error
ExecOutcomeAlwaysPanics(err) ==
    IF err = "nil" THEN [pc |-> "Done", panic |-> FALSE, log |-> FALSE]
    ELSE [pc |-> "Aborted", panic |-> TRUE, log |-> FALSE]

\* render.go:159-168
ExecOutcome(err) ==
    IF err = "nil" THEN [pc |-> "Done", panic |-> FALSE, log |-> FALSE]
    ELSE IF err = "pongo" THEN [pc |-> "Aborted", panic |-> TRUE, log |-> FALSE]
    ELSE [pc |-> "SoftError", panic |-> FALSE, log |-> TRUE]

NoReturn == [called |-> FALSE, nil |-> TRUE, m |-> NoKeys]
NoCtx == [ref |-> "nil", m |-> NoKeys]

\* the rest of the program's state, which Render does not touch
RFrame == UNCHANGED <<nvars, fvars, jvars>>

\* no Render call has been made
RQuiet ==
    /\ cached = FALSE
    /\ rctx = NilMap
    /\ rpc = "Idle"
    /\ path = <<"Idle">>
    /\ calls = 0
    /\ reqURL = ""
    /\ resolveErr = "nil"
    /\ execErr = "nil"
    /\ rctx0 = NilMap
    /\ dret = NoReturn
    /\ nfCalls = <<>>
    /\ dctxCalls = 0
    /\ contentType = ""
    /\ tplCtx = <<>>
    /\ logged = <<>>
    /\ panicked = FALSE
    /\ ctx = NoCtx

\* a Loader as New() returns it; dctx is the map a shared DefaultCtx holds
RInit ==
    /\ ld \in Loaders
    /\ dctx = ld.conf.defaultMap
    /\ RQuiet

\* A handler calls ld.Render(w, r, path, r0) for a new request; r0 is the map
\* it passed to the call before (the same object) or another map.
RenderBegin ==
    /\ rpc \in {"Idle"} \cup Terminal
    /\ calls < MaxCalls
    /\ \E url \in URLs, r0 \in {rctx} \cup ExplicitMaps :
        /\ reqURL' = url
        /\ rctx' = r0
        /\ rctx0' = r0
    /\ calls' = calls + 1
    /\ rpc' = "Resolving"
    /\ path' = <<"Idle", "Resolving">>
    /\ resolveErr' = "nil"
    /\ execErr' = "nil"
    /\ dret' = NoReturn
    /\ nfCalls' = <<>>
    /\ dctxCalls' = 0
    /\ contentType' = ""
    /\ tplCtx' = <<>>
    /\ logged' = <<>>
    /\ panicked' = FALSE
    /\ ctx' = NoCtx
    /\ UNCHANGED <<ld, cached, dctx>>
    /\ RFrame

\* render.go:112-131: the template set resolves the path (from its cache
\* once a caching Loader has parsed it), and the error is classified.
Resolve ==
    /\ rpc = "Resolving"
    /\ \E err \in ResolveErrs :
        /\ (ld.conf.CacheParsed /\ cached) => err = "nil"
        /\ resolveErr' = err
        /\ cached' = (cached \/ (ld.conf.CacheParsed /\ err = "nil"))
        /\ LET out == ResolveOutcome(err, ld.conf.NotFoundHandler) IN
            /\ rpc' = out.pc
            /\ path' = Append(path, out.pc)
            /\ nfCalls' = IF out.handler
                          THEN Append(nfCalls, [w |-> calls, r |-> calls])
                          ELSE nfCalls
            /\ panicked' = out.panic
    /\ UNCHANGED <<ld, rctx, dctx, calls, reqURL, execErr, rctx0, dret, dctxCalls,
                   contentType, tplCtx, logged, ctx>>
    /\ RFrame

\* render.go:133-155: DefaultCtx is called if set, the contexts are merged
\* and url and cachets are put where they are missing. ctx points to one of
\* the two maps or to a new one, and the writes go to the map it points to.
BuildContext ==
    /\ rpc = "Resolved"
    /\ LET called == ld.conf.DefaultCtx # "nil"
           d == IF ld.conf.DefaultCtx = "shared" THEN dctx ELSE ld.conf.defaultMap
           merged == MergeCtx(called, d, rctx)
           final == InjectDefaults(merged.m, reqURL, ld.ts)
       IN
        /\ dret' = [called |-> called, nil |-> d.nil, m |-> d.m]
        /\ dctxCalls' = IF called THEN dctxCalls + 1 ELSE dctxCalls
        /\ ctx' = [ref |-> merged.ref, m |-> final]
        /\ rctx' = IF merged.ref = "rctx" THEN [nil |-> FALSE, m |-> final] ELSE rctx
        /\ dctx' = IF merged.ref = "dctx" THEN [nil |-> FALSE, m |-> final]
                   ELSE IF called THEN d ELSE dctx
    /\ rpc' = "ContextBuilt"
    /\ path' = Append(path, "ContextBuilt")
    /\ UNCHANGED <<ld, cached, calls, reqURL, resolveErr, execErr, rctx0, nfCalls,
                   contentType, tplCtx, logged, panicked>>
    /\ RFrame

\* render.go:157
SetContentType ==
    /\ rpc = "ContextBuilt"
    /\ contentType' = "text/html"
    /\ rpc' = "Executing"
    /\ path' = Append(path, "Executing")
    /\ UNCHANGED <<ld, cached, rctx, dctx, calls, reqURL, resolveErr, execErr, rctx0,
                   dret, nfCalls, dctxCalls, tplCtx, logged, panicked, ctx>>
    /\ RFrame

\* render.go:159-168: the template runs on ctx, and its error is classified.
Execute ==
    /\ rpc = "Executing"
    /\ \E err \in ExecErrs :
        /\ execErr' = err
        /\ tplCtx' = Append(tplCtx, ctx.m)
        /\ LET out == ExecOutcome(err) IN
            /\ rpc' = out.pc
            /\ path' = Append(path, out.pc)
            /\ panicked' = out.panic
            /\ logged' = IF out.log THEN Append(logged, err) ELSE logged
    /\ UNCHANGED <<ld, cached, rctx, dctx, calls, reqURL, resolveErr, rctx0, dret,
                   nfCalls, dctxCalls, contentType, ctx>>
    /\ RFrame

RNext ==
    \/ RenderBegin
    \/ Resolve
    \/ BuildContext
    \/ SetContentType
    \/ Execute

-----------------------------------------------------------------------------
(* render.go: FileServer *)

\* the longest path enumerated
MaxPathLen == 3

PathChars == {Ord("/"), Ord("s"), Ord("{"), Ord("}"), Ord("*")}

Static == Str(<<"/", "s", "t", "a", "t", "i", "c">>)
StaticId == Str(<<"/", "s", "t", "a", "t", "i", "c", "/", "{", "i", "d", "}">>)

Paths == SeqsUpTo(PathChars, MaxPathLen) \cup {Static, Static \o Slash, StaticId}

\* strings.ContainsAny(s, chars)
ContainsAny(s, chars) == \E i \in 1..Len(s) : \E j \in 1..Len(chars) : s[i] = chars[j]

\* render.go:185-199. The result is whether the call panicked and the
\* router.Get calls it made: the explicit panic of line 186 for a path with
\* a url parameter, the index-out-of-range panic of path[len(path)-1] at
\* line 191 for the empty path, and the registrations otherwise.
FileServer(p) ==
    IF ContainsAny(p, Str(<<"{", "}", "*">>))
    THEN [panic |-> "url params not allowed in file server", gets |-> <<>>]
    ELSE IF p # Slash /\ Len(p) = 0
    THEN [panic |-> "index out of range", gets |-> <<>>]
    ELSE IF p # Slash /\ p[Len(p)] # Ord("/")
    THEN [panic |-> "",
          gets |-> << [pattern |-> p, handler |-> "redirect", to |-> p \o Slash, code |-> 301],
                      [pattern |-> p \o Slash \o Str(<<"*">>), handler |-> "files",
                       to |-> p, code |-> 0] >>]
    ELSE [panic |-> "",
          gets |-> << [pattern |-> p \o Str(<<"*">>), handler |-> "files",
                       to |-> p, code |-> 0] >>]

FFrame == UNCHANGED <<nvars, rvars, jvars>>

FQuiet ==
    /\ routes = <<>>
    /\ fpc = "idle"

FInit ==
    /\ fsPath \in Paths
    /\ FQuiet

\* the program calls FileServer(router, fsPath, root)
CallFileServer ==
    /\ fpc = "idle"
    /\ routes' = routes \o FileServer(fsPath).gets
    /\ fpc' = IF FileServer(fsPath).panic # "" THEN "panicked" ELSE "done"
    /\ UNCHANGED fsPath
    /\ FFrame

FNext == CallFileServer

-----------------------------------------------------------------------------
(* render.go: JSON *)

\* the longest string value enumerated
MaxStrLen == 2

ValueChars == {Ord("<"), Ord(">"), Ord("&"), Ord("a")}

\* The values handed to JSON: a string, an object with the one key k and a
\* string value, or a value encoding/json cannot encode (a channel).
JSONValues ==
    {[kind |-> k, s |-> x] : k \in {"string", "object"}, x \in SeqsUpTo(ValueChars, MaxStrLen)}
        \cup {[kind |-> "chan", s |-> EmptyStr]}

\* r.Context().Value(JSONEscapeHTMLKey): not set, a bool, or another type
EscapeValues == {"absent", "true", "false", "string"}

\* r.FormValue("pretty"); the empty string when the form has none
PrettyValues ==
    { EmptyStr, Str(<<"t", "r", "u", "e">>), Str(<<"1">>), Str(<<"T">>),
      Str(<<"T", "R", "U", "E">>), Str(<<"f", "a", "l", "s", "e">>), Str(<<"0">>),
      Str(<<"y", "e", "s">>), Str(<<"t", "R", "u", "E">>) }

\* strconv.ParseBool(s), its error dropped as render.go:220 drops it
ParseBool(s) ==
    s \in { Str(<<"1">>), Str(<<"t">>), Str(<<"T">>), Str(<<"T", "R", "U", "E">>),
            Str(<<"t", "r", "u", "e">>), Str(<<"T", "r", "u", "e">>) }

lowerhex == Str(<<"0", "1", "2", "3", "4", "5", "6", "7", "8", "9",
                  "a", "b", "c", "d", "e", "f">>)

\* encoding/json's string encoding: with escapeHTML, each of < > & is
\* written as a backslash, u, 0, 0 and its two hex digits.
RECURSIVE jsonChars(_, _)
jsonChars(x, escapeHTML) ==
    IF x = <<>> THEN <<>>
    ELSE (IF escapeHTML /\ Head(x) \in {Ord("<"), Ord(">"), Ord("&")}
          THEN <<Ord("BACKSLASH"), Ord("u"), Ord("0"), Ord("0"),
                 lowerhex[(Head(x) \div 16) + 1], lowerhex[(Head(x) % 16) + 1]>>
          ELSE <<Head(x)>>)
         \o jsonChars(Tail(x), escapeHTML)

jsonString(x, escapeHTML) == <<Ord("DQUOTE")>> \o jsonChars(x, escapeHTML) \o <<Ord("DQUOTE")>>

Newline == <<10>>

\* json.Encoder.Encode(v) into the buffer, with the encoder's escapeHTML and
\* indent settings: [ok, out]. Encode ends its output with a newline.
JSONEncode(v, escapeHTML, indent) ==
    IF v.kind = "chan" THEN [ok |-> FALSE, out |-> EmptyStr]
    ELSE IF v.kind = "string"
    THEN [ok |-> TRUE, out |-> jsonString(v.s, escapeHTML) \o Newline]
    ELSE IF indent = EmptyStr
    THEN [ok |-> TRUE,
          out |-> Str(<<"{">>) \o jsonString(Str(<<"k">>), escapeHTML) \o Str(<<":">>)
                  \o jsonString(v.s, escapeHTML) \o Str(<<"}">>) \o Newline]
    ELSE [ok |-> TRUE,
          out |-> Str(<<"{">>) \o Newline \o indent
                  \o jsonString(Str(<<"k">>), escapeHTML) \o Str(<<":", " ">>)
                  \o jsonString(v.s, escapeHTML) \o Newline \o Str(<<"}">>) \o Newline]

\* json.NewEncoder(buf): HTML escaping is on and there is no indent
NewEncoder == [escapeHTML |-> TRUE, indent |-> EmptyStr]

\* render.go:214-222: SetEscapeHTML(true) when the context value is the bool
\* true, SetIndent("", "    ") when pretty parses as true; nothing else
\* changes the encoder.
EncoderFor(r) ==
    LET e1 == IF r.escape = "true" THEN [NewEncoder EXCEPT !.escapeHTML = TRUE]
              ELSE NewEncoder
    IN  IF ParseBool(r.pretty) THEN [e1 EXCEPT !.indent = Str(<<" ", " ", " ", " ">>)]
        ELSE e1

JFrame == UNCHANGED <<nvars, rvars, fvars>>

JQuiet ==
    /\ jpc = "idle"
    /\ jContentType = ""
    /\ jbody = EmptyStr

JInit ==
    /\ jreq \in [escape : EscapeValues, pretty : PrettyValues, v : JSONValues]
    /\ JQuiet

\* a handler calls JSON(w, r, v) (render.go:212-230): a failed Encode panics
\* before anything is written
CallJSON ==
    /\ jpc = "idle"
    /\ LET enc == JSONEncode(jreq.v, EncoderFor(jreq).escapeHTML, EncoderFor(jreq).indent)
       IN  /\ jpc' = IF enc.ok THEN "done" ELSE "panicked"
           /\ jContentType' = IF enc.ok THEN "application/json" ELSE jContentType
           /\ jbody' = IF enc.ok THEN enc.out ELSE jbody
    /\ UNCHANGED jreq
    /\ JFrame

JNext == CallJSON

\* next.go is not in use
NQuiet ==
    /\ req = [hasQuery |-> FALSE, rawQuery |-> EmptyStr, hasBody |-> FALSE, rawBody |-> EmptyStr]
    /\ npc = "idle"
    /\ next = EmptyStr
    /\ selected = EmptyStr
    /\ location = EmptyStr
    /\ sent = EmptyStr
    /\ hop = 0

-----------------------------------------------------------------------------
(* Specifications *)

\* the loader of a program that only uses next.go
LdQuiet ==
    /\ ld = [conf |-> [CacheParsed |-> FALSE, DefaultCtx |-> "nil",
                      defaultMap |-> NilMap, NotFoundHandler |-> FALSE],
             ts |-> "ld.ts"]
    /\ dctx = NilMap

\* FileServer is not in use
FsQuiet == fsPath = Slash /\ FQuiet

\* JSON is not in use
JsQuiet ==
    /\ jreq = [escape |-> "absent", pretty |-> EmptyStr, v |-> [kind |-> "string", s |-> EmptyStr]]
    /\ JQuiet

\* sessions of the next-URL helpers
InitNextURL == NInit /\ LdQuiet /\ RQuiet /\ FsQuiet /\ JsQuiet
SpecNextURL == InitNextURL /\ [][NNext]_vars

\* Render calls on one Loader
InitRender == RInit /\ NQuiet /\ FsQuiet /\ JsQuiet
SpecRender == InitRender /\ [][RNext]_vars

\* FileServer calls
InitFileServer == FInit /\ NQuiet /\ LdQuiet /\ RQuiet /\ JsQuiet
SpecFileServer == InitFileServer /\ [][FNext]_vars

\* JSON calls
InitJSON == JInit /\ NQuiet /\ LdQuiet /\ RQuiet /\ FsQuiet
SpecJSON == InitJSON /\ [][JNext]_vars

-----------------------------------------------------------------------------
(* Properties of next.go, checked under SpecNextURL *)

\* C1: GetNextURL never returns a protocol-relative or absolute URL: its
\* result never starts with //, http:// or https://, and the query value
\* %2F%2Fevil.com yields the empty string.
C1_NeverProtocolRelative ==
    npc = "returned" =>
        /\ ~HasPrefix(next, Str(<<"/", "/">>))
        /\ ~HasPrefix(next, Str(<<"h", "t", "t", "p", ":", "/", "/">>))
        /\ ~HasPrefix(next, Str(<<"h", "t", "t", "p", "s", ":", "/", "/">>))
        /\ (req.hasQuery /\ req.rawQuery = EvilEncoded => next = EmptyStr)

\* C2: for a non-empty selected value v, GetNextURL returns the decoded
\* value when v decodes to a string starting with /, the empty string when v
\* decodes to anything else, and, only when v does not decode, v itself if it
\* starts with / and the empty string otherwise; so every result is empty or
\* starts with /.
C2_DecodedThenRaw ==
    (npc = "returned" /\ selected # EmptyStr) =>
        /\ (QueryUnescape(selected).ok /\ HasPrefix(QueryUnescape(selected).val, Slash)
                => next = QueryUnescape(selected).val)
        /\ (QueryUnescape(selected).ok /\ ~HasPrefix(QueryUnescape(selected).val, Slash)
                => next = EmptyStr)
        /\ (~QueryUnescape(selected).ok /\ HasPrefix(selected, Slash) => next = selected)
        /\ (~QueryUnescape(selected).ok /\ ~HasPrefix(selected, Slash) => next = EmptyStr)
        /\ (next = EmptyStr \/ HasPrefix(next, Slash))

\* C2's case: a selected value with an escape in it was decoded and returned.
C2_Witness ==
    /\ npc = "returned"
    /\ QueryUnescape(selected).ok
    /\ next # EmptyStr
    /\ next # selected

\* C6: GetNextURL takes the URL's query value when it is not empty and the
\* form value otherwise (form value /settings alone gives /settings, query
\* value /dashboard alone gives /dashboard, neither gives the empty string),
\* and a request whose form does not parse is answered all the same.
C6_QueryBeforeForm ==
    npc = "returned" =>
        /\ (URLQueryGet(req) # EmptyStr => selected = URLQueryGet(req))
        /\ (URLQueryGet(req) = EmptyStr => selected = FormValue(req))
        /\ (~req.hasQuery /\ req.hasBody /\ req.rawBody = Settings => next = Settings)
        /\ (req.hasQuery /\ req.rawQuery = Dashboard /\ ~req.hasBody => next = Dashboard)
        /\ (ParseFormErr(req) /\ URLQueryGet(req) = EmptyStr
                /\ req.hasBody /\ req.rawBody = Settings => next = Settings)
        /\ ((~req.hasQuery \/ req.rawQuery = EmptyStr) /\ (~req.hasBody \/ req.rawBody = EmptyStr)
                => next = EmptyStr)

\* C6's case: a query value is present and the body's different value is
\* ignored.
C6_Witness ==
    /\ npc = "returned"
    /\ req.hasQuery /\ req.rawQuery = Dashboard
    /\ req.hasBody /\ req.rawBody = Settings
    /\ next = Dashboard

\* C10: a non-empty continuation that went through RedirectWithNextURL is
\* what GetNextURL returns for the request that follows the redirect.
C10_RoundTrip ==
    (npc = "returned" /\ hop >= 1 /\ sent # EmptyStr) => next = sent

-----------------------------------------------------------------------------
(* Properties of Loader.Render, checked under SpecRender *)

\* C3: every key the template sees has the value of the explicit context if
\* that holds the key, else the value of the map DefaultCtx returned if that
\* holds the key, else, for url and cachets only, the request's URL and the
\* Loader's timestamp; any other key is absent.
C3_ContextPrecedence ==
    \A i \in 1..Len(tplCtx) : \A k \in Keys :
        tplCtx[i][k] =
            IF ~rctx0.nil /\ rctx0.m[k] # Absent THEN rctx0.m[k]
            ELSE IF dret.called /\ ~dret.nil /\ dret.m[k] # Absent THEN dret.m[k]
            ELSE IF k = "url" THEN reqURL
            ELSE IF k = "cachets" THEN ld.ts
            ELSE Absent

\* C3's case: a template ran with an explicit url, a cachets that only
\* DefaultCtx supplied, and neither source holding title.
C3_Witness ==
    /\ tplCtx # <<>>
    /\ ~rctx0.nil /\ rctx0.m["url"] = "e" /\ rctx0.m["cachets"] = Absent
    /\ dret.called /\ ~dret.nil /\ dret.m["cachets"] = "d" /\ dret.m["url"] = "d"
    /\ tplCtx[1]["url"] = "e"
    /\ tplCtx[1]["cachets"] = "d"

\* C4: when resolution fails with the engine's error wrapping a
\* file-does-not-exist error, Render calls a configured NotFoundHandler once
\* with its own writer and request and returns, and panics when none is
\* configured; either way DefaultCtx is not called, no Content-Type is set
\* and no template runs.
C4_NotFound ==
    resolveErr = "pongoNotExist" =>
        /\ dctxCalls = 0
        /\ contentType = ""
        /\ tplCtx = <<>>
        /\ IF ld.conf.NotFoundHandler
           THEN rpc = "NotFound" /\ ~panicked /\ nfCalls = <<[w |-> calls, r |-> calls]>>
           ELSE rpc = "Aborted" /\ panicked /\ nfCalls = <<>>

\* C4's case: the handler took a missing template.
C4_Witness ==
    /\ resolveErr = "pongoNotExist"
    /\ rpc = "NotFound"
    /\ Len(nfCalls) = 1

\* C5: a Render call walks the spec's state machine to one terminal outcome.
\* It aborts (panics) from resolution on every resolution error that is not
\* a handled not-found and from execution on the engine's own error; it ends
\* in SoftError only from execution on another error, which is written to
\* the ErrorLogger without a panic. DefaultCtx is called and the Content-Type
\* set only after resolution succeeded, and the template runs after both.
C5_StateMachine ==
    LET full == {<<"Idle", "Resolving", "NotFound">>, <<"Idle", "Resolving", "Aborted">>}
                \cup {<<"Idle", "Resolving", "Resolved", "ContextBuilt", "Executing", t>> :
                        t \in {"Done", "SoftError", "Aborted"}}
        resolved == Len(path) >= 3
        executed == Len(path) = 6
        handled == resolveErr = "pongoNotExist" /\ ld.conf.NotFoundHandler
    IN  /\ \E f \in full : Len(path) <= Len(f) /\ path = SubSeq(f, 1, Len(path))
        /\ rpc = path[Len(path)]
        /\ (resolved /\ resolveErr # "nil") => rpc = (IF handled THEN "NotFound" ELSE "Aborted")
        /\ (resolved /\ resolveErr = "nil") => path[3] = "Resolved"
        /\ executed =>
            rpc = (IF execErr = "pongo" THEN "Aborted"
                   ELSE IF execErr = "other" THEN "SoftError" ELSE "Done")
        /\ panicked <=> rpc = "Aborted"
        /\ logged = (IF rpc = "SoftError" THEN <<execErr>> ELSE <<>>)
        /\ (dctxCalls > 0 \/ contentType # "") => (resolved /\ resolveErr = "nil")
        /\ contentType \in {"", "text/html"}
        /\ Len(tplCtx) = (IF executed THEN 1 ELSE 0)
        /\ executed =>
            /\ contentType = "text/html"
            /\ dctxCalls = (IF ld.conf.DefaultCtx # "nil" THEN 1 ELSE 0)

\* C5's case: a write error during execution was logged and swallowed.
C5_Witness ==
    /\ rpc = "SoftError"
    /\ execErr = "other"
    /\ logged # <<>>
    /\ ~panicked

\* C9: after a Render call the explicit map the caller passed and the map
\* DefaultCtx returned hold what they held before the call.
C9_InputsUntouched ==
    rpc \in Terminal =>
        /\ rctx = rctx0
        /\ dret.called => dctx = [nil |-> dret.nil, m |-> dret.m]

-----------------------------------------------------------------------------
(* Properties of FileServer, checked under SpecFileServer *)

\* C7: FileServer panics and registers nothing when the prefix holds one of
\* { } *; otherwise it registers the file handler at the trailing-slash form
\* of the prefix followed by *, after a 301 redirect from the prefix to the
\* prefix plus / exactly when the prefix is not / and does not end in /.
C7_RouteSet ==
    fpc # "idle" =>
        LET ends == Len(fsPath) > 0 /\ fsPath[Len(fsPath)] = Ord("/")
            slashed == IF ends THEN fsPath ELSE fsPath \o Slash
            files == [pattern |-> slashed \o Str(<<"*">>), handler |-> "files",
                      to |-> fsPath, code |-> 0]
            redirect == [pattern |-> fsPath, handler |-> "redirect",
                         to |-> fsPath \o Slash, code |-> 301]
        IN  IF ContainsAny(fsPath, Str(<<"{", "}", "*">>))
            THEN fpc = "panicked" /\ routes = <<>>
            ELSE /\ fpc = "done"
                 /\ routes = (IF fsPath # Slash /\ ~ends THEN <<redirect, files>> ELSE <<files>>)

-----------------------------------------------------------------------------
(* Properties of JSON, checked under SpecJSON *)

\* C8: JSON's output is HTML-escaped if and only if the request context
\* holds JSONEscapeHTMLKey with the bool true, it is indented by four spaces
\* exactly when the form value pretty parses as true, and the Content-Type
\* is application/json.
C8_EscapeOptIn ==
    jpc = "done" =>
        /\ jContentType = "application/json"
        /\ jbody = JSONEncode(jreq.v, jreq.escape = "true",
                              IF ParseBool(jreq.pretty) THEN Str(<<" ", " ", " ", " ">>)
                              ELSE EmptyStr).out

=============================================================================
